---- MODULE Spec2Model ----
(***************************************************************************)
(* A model of rhachis: the seeded pseudorandom generator `Noise` of        *)
(* src/src/rand.rs with its operations and perlin_2d, the SimpleRenderer   *)
(* and Model of src/src/renderers.rs, the Input of src/src/input.rs, the   *)
(* event loop and GameData of src/src/lib.rs, and lerp of src/src/math.rs. *)
(*                                                                         *)
(* A u32 is modelled as a pair <<hi, lo>> of 16-bit half-words, value      *)
(* hi * 2^16 + lo, so that every 32-bit value and every wrapping product   *)
(* can be computed exactly with intermediate results below 2^31.           *)
(***************************************************************************)
EXTENDS Integers, Sequences, FiniteSets

\* ------------------------------------------------------------------ u32
\* 2^16, the radix of the half-word representation of the u32 type.
Half == 2 ^ 16

\* The u32 with half-words hi and lo.
U(hi, lo) == <<hi, lo>>

\* The u32 of a non-negative literal below 2^31.
FromInt(n) == <<n \div Half, n % Half>>

\* u32::MIN and u32::MAX.
U32_MIN == U(0, 0)
U32_MAX == U(Half - 1, Half - 1)
One == U(0, 1)

\* The values of the u32 type.
IsU32(v) ==
  /\ v \in Seq(Int)
  /\ Len(v) = 2
  /\ v[1] \in 0 .. Half - 1
  /\ v[2] \in 0 .. Half - 1

\* a < b and a <= b on u32 values.
Lt(a, b) == a[1] < b[1] \/ (a[1] = b[1] /\ a[2] < b[2])
Le(a, b) == a = b \/ Lt(a, b)

\* a + b modulo 2^32 (u32::wrapping_add).
wrapping_add(a, b) ==
  U((a[1] + b[1] + (a[2] + b[2]) \div Half) % Half, (a[2] + b[2]) % Half)

\* Whether a + b exceeds u32::MAX.
add_overflows(a, b) == a[1] + b[1] + (a[2] + b[2]) \div Half >= Half

\* a - b modulo 2^32 (u32::wrapping_sub), and whether a - b is negative.
wrapping_sub(a, b) ==
  U((a[1] - b[1] - (IF a[2] < b[2] THEN 1 ELSE 0)) % Half,
    (a[2] - b[2]) % Half)

sub_overflows(a, b) == Lt(a, b)

\* The low half-word of the product of two half-words.
MulLow(a, b) ==
  (a * (b % 256) + ((a * (b \div 256)) % 256) * 256) % Half

\* The full 32-bit product of two half-words, as a u32.
MulParts(p0, p1) ==
  U((p1 \div 256 + (p0 + (p1 % 256) * 256) \div Half) % Half,
    (p0 + (p1 % 256) * 256) % Half)

MulWide(a, b) == MulParts(a * (b % 256), a * (b \div 256))

\* a * b modulo 2^32 (u32::wrapping_mul).
MulJoin(w, cross) == U((w[1] + cross) % Half, w[2])

wrapping_mul(a, b) ==
  MulJoin(MulWide(a[2], b[2]), MulLow(a[1], b[2]) + MulLow(a[2], b[1]))

\* exp / 2 and exp & 1 on a u32 exponent.
Halve(e) == U(e[1] \div 2, e[2] \div 2 + (e[1] % 2) * (Half \div 2))
IsOdd(e) == e[2] % 2 = 1

\* base ^ exp modulo 2^32 (u32::wrapping_pow: square and multiply). The loop
\* state st is <<base, exp, acc>>.
RECURSIVE PowLoop(_)
PowLoop(st) ==
  IF st[2] = U32_MIN THEN st[3]
  ELSE PowLoop(<<wrapping_mul(st[1], st[1]),
                 Halve(st[2]),
                 IF IsOdd(st[2]) THEN wrapping_mul(st[3], st[1]) ELSE st[3]>>)

wrapping_pow(base, exp) == PowLoop(<<base, exp, One>>)

\* x rotated right / left by n bits, 0 < n < 16 (u32::rotate_right/left).
rotate_right(x, n) ==
  U(x[1] \div 2 ^ n + (x[2] % 2 ^ n) * 2 ^ (16 - n),
    x[2] \div 2 ^ n + (x[1] % 2 ^ n) * 2 ^ (16 - n))

rotate_left(x, n) ==
  U((x[1] % 2 ^ (16 - n)) * 2 ^ n + x[2] \div 2 ^ (16 - n),
    (x[2] % 2 ^ (16 - n)) * 2 ^ n + x[1] \div 2 ^ (16 - n))

\* 2 * r + bit - m if that is not negative, else 2 * r + bit, for r < m: one
\* step of binary long division. d is 2 * r + bit, of 33 bits.
RemSub(d, m) ==
  IF Lt(d, m) THEN d
  ELSE U(d[1] - m[1] - (IF d[2] < m[2] THEN 1 ELSE 0), (d[2] - m[2]) % Half)

RemStep(r, bit, m) ==
  RemSub(U(2 * r[1] + (2 * r[2] + bit) \div Half, (2 * r[2] + bit) % Half), m)

\* a % m for m # 0 (the u32 remainder), by binary long division. The loop
\* state st is <<i, a, r>>: i bits are left, a holds them in its top bits,
\* r is the remainder of the bits already taken.
RECURSIVE RemLoop(_, _)
RemLoop(m, st) ==
  IF st[1] = 0 THEN st[3]
  ELSE RemLoop(m, <<st[1] - 1,
                    wrapping_add(st[2], st[2]),
                    RemStep(st[3], st[2][1] \div (Half \div 2), m)>>)

rem(a, m) == RemLoop(m, <<32, a, U32_MIN>>)

\* ------------------------------------------------- checked arithmetic
\* The result of one arithmetic step of the u32 operators `+`, `-` and `%`:
\* with overflow checks (the debug profile) an overflow panics, without them
\* (the release profile) the value wraps; `%` by zero panics in every build.
Add(checks, a, b) ==
  [panic |-> checks /\ add_overflows(a, b),
   wrapped |-> add_overflows(a, b),
   val |-> wrapping_add(a, b)]

Sub(checks, a, b) ==
  [panic |-> checks /\ sub_overflows(a, b),
   wrapped |-> sub_overflows(a, b),
   val |-> wrapping_sub(a, b)]

\* Whether a * b exceeds u32::MAX: both high half-words are set, or the cross
\* product c (one of its two terms is 0) does not fit above the low product.
MulCarries(c, low) == c[1] > 0 \/ c[2] + low[1] >= Half

mul_overflows(a, b) ==
  \/ a[1] > 0 /\ b[1] > 0
  \/ MulCarries(wrapping_add(MulWide(a[1], b[2]), MulWide(a[2], b[1])),
                MulWide(a[2], b[2]))

Mul(checks, a, b) ==
  [panic |-> checks /\ mul_overflows(a, b),
   wrapped |-> mul_overflows(a, b),
   val |-> wrapping_mul(a, b)]

Rem(a, m) ==
  [panic |-> m = U32_MIN,
   wrapped |-> FALSE,
   val |-> IF m = U32_MIN THEN U32_MIN ELSE rem(a, m)]

Exact(v) == [panic |-> FALSE, wrapped |-> FALSE, val |-> v]

\* ------------------------------------------------------------ ranges
\* std::ops::Bound and the RangeBounds<u32> values a caller can pass.
Included(x) == <<"Included", x>>
Excluded(x) == <<"Excluded", x>>
Unbounded == <<"Unbounded", U32_MIN>>

Bounds(s, e) == [start |-> s, end |-> e]
Range(a, b) == Bounds(Included(a), Excluded(b))
RangeInclusive(a, b) == Bounds(Included(a), Included(b))
RangeFrom(a) == Bounds(Included(a), Unbounded)
RangeTo(b) == Bounds(Unbounded, Excluded(b))
RangeToInclusive(b) == Bounds(Unbounded, Included(b))
RangeFull == Bounds(Unbounded, Unbounded)

\* ---------------------------------------------------------------- Noise
\* Noise::from_seed: a generator with the seed given and the cursor at 0.
from_seed(seed) == [seed |-> seed, index |-> U32_MIN]

\* Noise::get: the pseudorandom number associated with x.
\* Each mixN is the statement of line N of rand.rs, on the value a it
\* updates.
mix40(x) == wrapping_pow(rotate_right(x, 13), x)
mix41(a, seed) == wrapping_mul(a, wrapping_mul(a, seed))
mix42(a) == wrapping_add(a, FromInt(19990303))
mix43(a) == wrapping_mul(a, rotate_left(a, 8))
mix44(a, seed, x) == wrapping_pow(a, wrapping_pow(seed, x))
mix45(a) == wrapping_add(a, FromInt(1376312589))
\* mix46 with the power not reduced modulo 2^32 (a.pow(4)): from a = 2^8 on
\* it keeps a bit above bit 31 and is no u32.
mix46_unreduced(a) ==
  IF Lt(a, FromInt(256)) THEN wrapping_pow(a, FromInt(4))
  ELSE U(Half + wrapping_pow(a, FromInt(4))[1], wrapping_pow(a, FromInt(4))[2])

mix46(a) == wrapping_pow(a, FromInt(4))

\* get with the cursor mixed into the seed.
get_cursor(self, x) ==
  mix46(mix45(mix44(mix43(mix42(mix41(mix40(x),
        wrapping_add(self.seed, self.index)))), self.seed, x)))

get(self, x) ==
  mix46(mix45(mix44(mix43(mix42(mix41(mix40(x), self.seed))), self.seed, x)))

\* What a call hands back: the generator afterwards, whether the call
\* returned ("ok") or panicked, the value returned, the index the hash was
\* evaluated at, and whether an unchecked `+` or `-` wrapped on the way.
Returned(self, x, v, wrapped) ==
  [self |-> self, outcome |-> "ok", x |-> x, val |-> v, wrapped |-> wrapped]

Panicked(self, x) ==
  [self |-> self, outcome |-> "panic", x |-> x, val |-> U32_MIN,
   wrapped |-> FALSE]

\* `self.index += 1`, the first statement of next and of next_range.
\* increment that also steps the seed.
increment_seed(checks, self) ==
  [panic |-> checks /\ add_overflows(self.index, One),
   wrapped |-> add_overflows(self.index, One),
   self |-> [seed |-> wrapping_add(self.seed, One),
             index |-> wrapping_add(self.index, One)]]

increment(checks, self) ==
  [panic |-> checks /\ add_overflows(self.index, One),
   wrapped |-> add_overflows(self.index, One),
   self |-> [self EXCEPT !.index = wrapping_add(self.index, One)]]

\* next_get that hashes the cursor as it was before the increment.
next_get_before(self, inc) ==
  IF inc.panic THEN Panicked(self, self.index)
  ELSE Returned(inc.self, self.index, get(inc.self, self.index), inc.wrapped)

\* self.get(self.index), the second statement of next.
next_get(self, inc) ==
  IF inc.panic THEN Panicked(self, self.index)
  ELSE Returned(inc.self, inc.self.index, get(inc.self, inc.self.index),
                inc.wrapped)

\* Noise::next.
next(checks, self) == next_get(self, increment(checks, self))

\* The start and the end of the half-open interval get_range reduces to.
start_of(checks, range) ==
  CASE range.start[1] = "Included" -> Exact(range.start[2])
    [] range.start[1] = "Excluded" -> Add(checks, range.start[2], One)
    [] range.start[1] = "Unbounded" -> Exact(U32_MIN)

end_of(checks, range) ==
  CASE range.end[1] = "Included" -> Add(checks, range.end[2], One)
    [] range.end[1] = "Excluded" -> Exact(range.end[2])
    [] range.end[1] = "Unbounded" -> Exact(U32_MAX)

\* Noise::get_range: self.get(index) % (end - start) + start.
\* `... + start`, on the remainder r.
reduce_add(self, index, start, end, width, r, sum) ==
  IF start.panic \/ end.panic \/ width.panic \/ r.panic \/ sum.panic
  THEN Panicked(self, index)
  ELSE Returned(self, index, sum.val,
                start.wrapped \/ end.wrapped \/ width.wrapped \/ sum.wrapped)

\* `self.get(index) % ...`, on the width end - start.
reduce_rem(checks, self, index, start, end, width, r) ==
  reduce_add(self, index, start, end, width, r,
             Add(checks, r.val, start.val))

\* `end - start`, and the remainder of the hash by it.
reduce(checks, self, index, start, end, width) ==
  reduce_rem(checks, self, index, start, end, width,
             IF start.panic \/ end.panic \/ width.panic
             THEN Exact(U32_MIN)
             ELSE Rem(get(self, index), width.val))

\* reduce_sub with the width of the closed interval, end - start + 1.
reduce_sub_closed(checks, self, index, start, end) ==
  reduce(checks, self, index, start, end,
         Sub(checks, wrapping_add(end.val, One), start.val))

reduce_sub(checks, self, index, start, end) ==
  reduce(checks, self, index, start, end, Sub(checks, end.val, start.val))

\* Noise::get_range: self.get(index) % (end - start) + start.
get_range(checks, self, index, range) ==
  reduce_sub(checks, self, index, start_of(checks, range),
             end_of(checks, range))

\* self.get_range(self.index, range), the second statement of next_range.
next_get_range(checks, self, inc, range) ==
  IF inc.panic THEN Panicked(self, self.index)
  ELSE [get_range(checks, inc.self, inc.self.index, range)
          EXCEPT !.wrapped = @ \/ inc.wrapped]

\* Noise::next_range.
next_range(checks, self, range) ==
  next_get_range(checks, self, increment(checks, self), range)

\* ----------------------------------------------------------- Noise::new
\* A u64 is a pair <<high, low>> of u32 words. `v as u64` of a u32, the
\* u64 remainder by a u32 modulus (long division continued over the low
\* word), and the `as u32` cast, which keeps the low word.
as_u64(v) == <<U32_MIN, v>>

rem64(a, m) == as_u64(RemLoop(m[2], <<32, a[2], rem(a[1], m[2])>>))

as_u32_cast(v) == [val |-> v[2], truncated |-> v[1] # U32_MIN]

\* The seconds taken as they are, not reduced.
as_secs_unreduced(secs) == secs

\* as_secs() % u32::MAX as u64
as_secs_reduced(secs) == rem64(secs, as_u64(U32_MAX))

\* Noise::new at the wall-clock time now: duration_since fails, and unwrap
\* panics, when the clock is set before the epoch.
new_seed(seed) ==
  Returned([seed |-> seed.val, index |-> U32_MIN], U32_MIN, seed.val,
           seed.truncated)

new(self, now) ==
  IF now.early THEN Panicked(self, U32_MIN)
  ELSE new_seed(as_u32_cast(as_secs_reduced(now.secs)))

\* The clock at quot * (2^32 - 1) + past seconds after the epoch, for u32
\* values quot and past: quot * 2^32 + (past - quot).
Clock(quot, past) ==
  [early |-> FALSE,
   secs |-> <<IF Lt(past, quot) THEN wrapping_sub(quot, One) ELSE quot,
              wrapping_sub(past, quot)>>,
   past |-> past]

\* The clock at u64::MAX = (2^32 + 1) * (2^32 - 1) seconds, and a clock set
\* before the epoch.
ClockMax == [early |-> FALSE, secs |-> <<U32_MAX, U32_MAX>>, past |-> U32_MIN]
ClockEarly == [early |-> TRUE, secs |-> <<U32_MIN, U32_MIN>>, past |-> U32_MIN]

\* ------------------------------------------------------------ perlin_2d
\* An f32 with an integer value: its sign and its magnitude, a u32. The
\* coordinates followed are the integers an f32 holds exactly.
Whole(neg, mag) == [neg |-> neg, mag |-> mag]

\* A coordinate of a position: the integer below it and how far above that
\* integer it lies, "0", "eps" (just above) or "1-eps" (just below the next).
Coord(floor, frac) == [floor |-> floor, frac |-> frac]

\* The `as u32` cast of as_uvec2: a negative value saturates to 0.
as_u32(g) == IF g.neg THEN U32_MIN ELSE g.mag

\* g + 1.0 in f32: exact below 2^24; from 2^24 to 2^25 the sum lies halfway
\* between two values and rounds to the one with the even significand; from
\* 2^25 on it rounds back to g.
add_one(g) ==
  IF g.neg
  THEN IF g.mag = One THEN Whole(FALSE, U32_MIN)
       ELSE Whole(TRUE, wrapping_sub(g.mag, One))
  ELSE IF Lt(g.mag, U(2 ^ 8, 0)) THEN Whole(FALSE, wrapping_add(g.mag, One))
  ELSE IF Lt(g.mag, U(2 ^ 9, 0)) /\ (g.mag[2] \div 2) % 2 = 1
       THEN Whole(FALSE, wrapping_add(g.mag, FromInt(2)))
  ELSE g

\* grid_pos.x * 2 and grid_pos.y * 2 + 1, the indices of the two noise values
\* of a corner.
x_index(checks, gx) == Mul(checks, gx, FromInt(2))

y_plus(checks, m) ==
  IF m.panic THEN m
  ELSE [Add(checks, m.val, One) EXCEPT !.wrapped = @ \/ m.wrapped]

y_index(checks, gy) == y_plus(checks, Mul(checks, gy, FromInt(2)))

\* The gradient of a corner: the two noise values it is normalised from.
gradient(self, ix, iy) ==
  IF ix.panic \/ iy.panic
  THEN [panic |-> TRUE, wrapped |-> TRUE, noise |-> <<U32_MIN, U32_MIN>>]
  ELSE [panic |-> FALSE, wrapped |-> ix.wrapped \/ iy.wrapped,
        noise |-> <<get(self, ix.val), get(self, iy.val)>>]

get_gradient(checks, self, grid_pos) ==
  gradient(self, x_index(checks, as_u32(grid_pos[1])),
           y_index(checks, as_u32(grid_pos[2])))

\* What perlin_2d has to interpolate: the offset within the cell and the
\* gradients of the four corners; it panics when a gradient does.
influences(pos, tl, tr, bl, br) ==
  [set |-> TRUE, pos |-> pos,
   outcome |-> IF tl.panic \/ tr.panic \/ bl.panic \/ br.panic
               THEN "panic" ELSE "ok",
   wrapped |-> tl.wrapped \/ tr.wrapped \/ bl.wrapped \/ br.wrapped,
   offset_pos |-> <<pos[1].frac, pos[2].frac>>,
   gradient_top_left |-> tl.noise, gradient_top_right |-> tr.noise,
   gradient_bottom_left |-> bl.noise, gradient_bottom_right |-> br.noise]

corners(checks, self, pos, x, y) ==
  influences(pos,
             get_gradient(checks, self, <<x, y>>),
             get_gradient(checks, self, <<add_one(x), y>>),
             get_gradient(checks, self, <<x, add_one(y)>>),
             get_gradient(checks, self, <<add_one(x), add_one(y)>>))

perlin_2d(checks, self, pos) ==
  corners(checks, self, pos, pos[1].floor, pos[2].floor)

\* No sample taken yet.
Unsampled ==
  [set |-> FALSE, pos |-> <<Coord(Whole(FALSE, U32_MIN), "0"),
                            Coord(Whole(FALSE, U32_MIN), "0")>>,
   outcome |-> "ok", wrapped |-> FALSE, offset_pos |-> <<"0", "0">>,
   gradient_top_left |-> <<U32_MIN, U32_MIN>>,
   gradient_top_right |-> <<U32_MIN, U32_MIN>>,
   gradient_bottom_left |-> <<U32_MIN, U32_MIN>>,
   gradient_bottom_right |-> <<U32_MIN, U32_MIN>>]

\* ------------------------------------------------------------ renderers
\* size_of::<[[f32; 4]; 4]>(), the bytes of one matrix.
MatrixBytes == 64

\* A Transform: a translation along x and a uniform scale, with no rotation.
Transform(translation, scale) == [translation |-> translation, scale |-> scale]

\* Transform::matrix: the columns of the scale-rotation-translation matrix.
matrix(t) ==
  << <<t.scale, 0, 0, 0>>, <<0, t.scale, 0, 0>>, <<0, 0, t.scale, 0>>,
     <<t.translation, 0, 0, 1>> >>

IDENTITY == << <<1, 0, 0, 0>>, <<0, 1, 0, 0>>, <<0, 0, 1, 0>>, <<0, 0, 0, 1>> >>

\* transforms.iter().map(Transform::matrix).collect()
matrices(transforms) ==
  [i \in 1 .. Len(transforms) |-> matrix(transforms[i])]

\* device.create_buffer_init: a buffer of the size of its contents, with a
\* handle that none of the buffers alive has (the lowest one free).
create_buffer_init(alive, contents) ==
  [id |-> CHOOSE i \in 1 .. Cardinality(alive) + 1 :
            i \notin alive /\ \A j \in 1 .. i - 1 : j \in alive,
   size |-> Len(contents) * MatrixBytes,
   contents |-> contents]

\* queue.write_buffer(buffer, offset, data): a write that would run over the
\* end of the buffer is a validation error and writes nothing.
write_over(contents, slot, data) ==
  [i \in 1 .. Len(contents) |->
     IF i > slot /\ i <= slot + Len(data) THEN data[i - slot] ELSE contents[i]]

write_buffer(buffer, offset, data) ==
  IF offset + Len(data) * MatrixBytes > buffer.size
  THEN [overrun |-> TRUE, buffer |-> buffer]
  ELSE [overrun |-> FALSE,
        buffer |-> [buffer EXCEPT
                      !.contents = write_over(@, offset \div MatrixBytes, data)]]

\* SimpleRenderer::new, from the projection matrix on: the two uniform
\* buffers and no model.
with_projection_buffer(camera_buffer, projection) ==
  [camera_buffer |-> camera_buffer,
   projection_buffer |->
     create_buffer_init({camera_buffer.id}, <<projection>>),
   models |-> <<>>]

SimpleRenderer_new(projection) ==
  with_projection_buffer(create_buffer_init({}, <<IDENTITY>>), projection)

\* The handles of the buffers a renderer keeps alive.
alive(self) ==
  {self.camera_buffer.id, self.projection_buffer.id}
    \cup {self.models[m].transform_buffer.id : m \in 1 .. Len(self.models)}

\* What a call on the renderer or on a model hands back: the value
\* afterwards, and whether the call returned or panicked.
Done(self) == [self |-> self, outcome |-> "ok"]
Failed(self) == [self |-> self, outcome |-> "panic"]

\* SimpleRenderer::set_camera and set_projection. An overrun reaches the
\* device's uncaptured-error handler: it panics (the default), or it is one
\* the game has installed and the call returns with nothing written.
written(self, w, fatal) ==
  IF w.overrun /\ fatal THEN Failed(self) ELSE Done(self)

set_camera_in(self, w, fatal) ==
  written([self EXCEPT !.camera_buffer = w.buffer], w, fatal)

set_camera(self, camera, fatal) ==
  set_camera_in(self,
                write_buffer(self.camera_buffer, MatrixBytes, <<camera>>),
                fatal)

set_projection_in(self, w, fatal) ==
  written([self EXCEPT !.projection_buffer = w.buffer], w, fatal)

set_projection(self, projection, fatal) ==
  set_projection_in(self,
                    write_buffer(self.projection_buffer, 0, <<projection>>),
                    fatal)

\* Model::new: the transform buffer is created from the transforms given.
\* The vertex and index buffers are never written again and not followed.
Model_new(device, transforms) ==
  Done([transforms |-> transforms,
        transforms_outdated |-> FALSE,
        transform_buffer |-> create_buffer_init(device, matrices(transforms)),
        transform_count |-> Len(transforms)])

\* Model::update_transforms, for a device with the buffers `device` alive.
update_written(self, w, fatal) ==
  IF w.overrun /\ fatal THEN Failed(self)
  ELSE Done([self EXCEPT !.transform_buffer = w.buffer,
                         !.transforms_outdated = FALSE])

update_created(self, buffer) ==
  Done([self EXCEPT !.transform_buffer = buffer,
                    !.transform_count = Len(self.transforms),
                    !.transforms_outdated = FALSE])

\* update_transforms that makes a new buffer only when the transforms have
\* become more.
update_transforms_grown(self, device, fatal) ==
  IF Len(self.transforms) > self.transform_count
  THEN update_created(self,
                      create_buffer_init(device, matrices(self.transforms)))
  ELSE update_written(self,
                      write_buffer(self.transform_buffer, 0,
                                   matrices(self.transforms)),
                      fatal)

\* update_transforms that takes the new count before it compares.
update_transforms_counted(self, device, fatal) ==
  update_written([self EXCEPT !.transform_count = Len(self.transforms)],
                 write_buffer(self.transform_buffer, 0,
                              matrices(self.transforms)),
                 fatal)

update_transforms(self, device, fatal) ==
  IF Len(self.transforms) # self.transform_count
  THEN update_created(self,
                      create_buffer_init(device, matrices(self.transforms)))
  ELSE update_written(self,
                      write_buffer(self.transform_buffer, 0,
                                   matrices(self.transforms)),
                      fatal)

\* Model::set_transform / with_transform: get_mut(index).unwrap() panics when
\* index is not below the length (indices count from 0).
set_transform(self, index, transform) ==
  IF index >= Len(self.transforms) THEN Failed(self)
  ELSE Done([self EXCEPT !.transforms[index + 1] = transform,
                         !.transforms_outdated = TRUE])

with_transform(self, index, transform) ==
  IF index >= Len(self.transforms) THEN Failed(self)
  ELSE Done([self EXCEPT !.transforms[index + 1] = transform,
                         !.transforms_outdated = TRUE])

\* set_transforms that leaves the transforms unmarked.
set_transforms_unmarked(self, transforms) ==
  Done([self EXCEPT !.transforms = transforms])

\* Model::set_transforms / with_transforms
set_transforms(self, transforms) ==
  Done([self EXCEPT !.transforms = transforms, !.transforms_outdated = TRUE])

with_transforms(self, transforms) ==
  Done([self EXCEPT !.transforms = transforms, !.transforms_outdated = TRUE])

\* Model::modify_transforms / with_modify_transforms: modify is given the
\* transforms as a slice and rewrites them in place to `modified`, a list of
\* the same length.
modify_transforms(self, modified) ==
  Done([self EXCEPT !.transforms = modified, !.transforms_outdated = TRUE])

with_modify_transforms(self, modified) ==
  Done([self EXCEPT !.transforms = modified, !.transforms_outdated = TRUE])

\* SimpleRenderer::update that leaves the models as they are.
SimpleRenderer_update_skipped(self, fatal) == Done(self)

\* SimpleRenderer::update: every outdated model is brought up to date, in
\* order. The loop state st is <<i, self, outcome>>: the models before the
\* one at i have been visited.
updated_model(st, res) ==
  <<st[1] + 1, [st[2] EXCEPT !.models[st[1]] = res.self], res.outcome>>

RECURSIVE update_loop(_, _)
update_loop(st, fatal) ==
  IF st[1] > Len(st[2].models) \/ st[3] = "panic" THEN st
  ELSE IF st[2].models[st[1]].transforms_outdated
  THEN update_loop(updated_model(st,
                     update_transforms(st[2].models[st[1]], alive(st[2]),
                                       fatal)),
                   fatal)
  ELSE update_loop(<<st[1] + 1, st[2], st[3]>>, fatal)

looped(st) == [self |-> st[2], outcome |-> st[3]]

SimpleRenderer_update(self, fatal) ==
  looped(update_loop(<<1, self, "ok">>, fatal))

\* SimpleRenderer::render reads the buffers and SimpleRenderer::resize
\* replaces the depth texture view, which is not followed: neither changes a
\* buffer or a model.
render(self) == Done(self)
resize(self) == Done(self)

\* ---------------------------------------------------------------- Input
\* From<Key> for ScanCode (target_os = "linux"), on the keys followed.
ScanCode(key) ==
  CASE key = "Escape" -> 1
    [] key = "Tab" -> 15
    [] key = "Char('w')" -> 17

\* The integer n as an f32: exact up to 2^24 in magnitude; beyond, n is
\* rounded to a multiple of the spacing of the f32 values there (2 up to
\* 2^25, 4 up to 2^26, 8 up to 2^27), halfway cases to the even significand.
round_to(n, spacing) ==
  IF (n % spacing) * 2 < spacing THEN n - (n % spacing)
  ELSE IF (n % spacing) * 2 > spacing THEN n - (n % spacing) + spacing
  ELSE IF (n \div spacing) % 2 = 0 THEN n - (n % spacing)
  ELSE n - (n % spacing) + spacing

round_f32_of(n) ==
  IF n <= 2 ^ 24 THEN n
  ELSE IF n <= 2 ^ 25 THEN round_to(n, 2)
  ELSE IF n <= 2 ^ 26 THEN round_to(n, 4)
  ELSE round_to(n, 8)

round_f32(n) ==
  IF n < 0 THEN 0 - round_f32_of(0 - n) ELSE round_f32_of(n)

as_f32(n) == round_f32(n)

\* Input::new
Input_new ==
  [keys |-> <<>>, buttons |-> <<>>, mouse_pos |-> <<0, 0>>,
   mouse_mov |-> <<0, 0>>]

\* *map.get(&code).unwrap_or(&InputState::Up)
actual_of(map, code) == IF code \in DOMAIN map THEN map[code] ELSE "Up"

\* The match of is_button and is_key on the state asked for.
is_state(actual, state) ==
  CASE state = "Down" -> actual = state \/ actual = "Pressed"
    [] state = "Up" -> actual = state \/ actual = "Released"
    [] OTHER -> actual = state

\* Input::is_button and Input::is_key
is_button(self, button, state) ==
  is_state(actual_of(self.buttons, button), state)

is_key(self, key, state) ==
  is_state(actual_of(self.keys, ScanCode(key)), state)

\* map.insert(code, state)
insert(map, code, state) ==
  [c \in DOMAIN map \cup {code} |-> IF c = code THEN state ELSE map[c]]

\* The iter_mut().for_each(..) and retain(..) of Input::update on one map.
for_each(map) ==
  [c \in DOMAIN map |->
     CASE map[c] = "Pressed" -> "Down"
       [] map[c] = "Released" -> "Up"
       [] OTHER -> map[c]]

retain(map) == [c \in {d \in DOMAIN map : map[d] # "Released"} |-> map[c]]

\* Input::update
Input_update(self) ==
  [self EXCEPT !.keys = retain(for_each(@)),
               !.buttons = retain(for_each(@)),
               !.mouse_mov = <<0, 0>>]

\* handle_key that takes every Pressed event as a new press.
handle_key_repeated(self, input) ==
  [self EXCEPT !.keys = insert(@, input.scancode, input.state)]

\* Input::handle_key and Input::handle_button
handle_key(self, input) ==
  IF input.state = "Pressed"
  THEN IF ~(/\ input.scancode \in DOMAIN self.keys
              /\ self.keys[input.scancode] = "Down")
       THEN [self EXCEPT !.keys = insert(@, input.scancode, "Pressed")]
       ELSE self
  ELSE [self EXCEPT !.keys = insert(@, input.scancode, "Released")]

handle_button(self, button, state) ==
  IF state = "Pressed"
  THEN IF ~(button \in DOMAIN self.buttons /\ self.buttons[button] = "Down")
       THEN [self EXCEPT !.buttons = insert(@, button, "Pressed")]
       ELSE self
  ELSE [self EXCEPT !.buttons = insert(@, button, "Released")]

\* Input::handle_cursor
moved(self, old_pos) ==
  [self EXCEPT !.mouse_mov = <<round_f32(self.mouse_pos[1] - old_pos[1]),
                              round_f32(self.mouse_pos[2] - old_pos[2])>>]

handle_cursor(self, pos) ==
  moved([self EXCEPT !.mouse_pos = <<as_f32(pos[1]), as_f32(pos[2])>>],
        self.mouse_pos)

\* ------------------------------------------------------------- GameData
\* Option<i32>, and code.unwrap_or_default().
None == <<"None">>
Some(code) == <<"Some", code>>

unwrap_or_default(code) == IF code = None THEN 0 ELSE code[2]

\* GameData as GameExt::run makes it, at the instant t, with the locals of
\* run that the event loop's closure keeps: last_update and the control
\* flow, and whether a redraw of the window has been requested.
GameData_new(t) ==
  [delta_time |-> 0, start_time |-> t, exit_code |-> None,
   last_update |-> t, control_flow |-> <<"Poll">>,
   redraw_requested |-> FALSE]

\* exit that stores the code as it is given.
exit_as_given(self, code) == [self EXCEPT !.exit_code = code]

\* GameData::exit
exit(self, code) ==
  [self EXCEPT !.exit_code = Some(unwrap_or_default(code))]

\* data.delta_time = Instant::now() - last_update, at the instant t.
timed(self, t) == [self EXCEPT !.delta_time = t - self.last_update]

\* if let Some(code) = *data.exit_code.lock() { *control_flow = .. }
exit_checked(self) ==
  IF self.exit_code # None
  THEN [self EXCEPT !.control_flow = <<"ExitWithCode", self.exit_code[2]>>]
  ELSE self

\* data.window.lock().request_redraw(); last_update = Instant::now(), at
\* the instant t.
redrawn(self, t) ==
  [self EXCEPT !.redraw_requested = TRUE, !.last_update = t]

\* What the game of the run does in Game::update or Game::handle_event: it
\* calls data.exit(code) or does not, and it gives its model (the first of
\* the renderer) new transforms through set_transforms or leaves them. The
\* default bodies of both do nothing.
Play(exit_call, change) == [exit |-> exit_call, transforms |-> change]
Still == Play(<<"no">>, <<"keep">>)

game_exit(self, play) ==
  IF play.exit[1] = "no" THEN self ELSE exit(self, play.exit[2])

game_models(self, play) ==
  IF play.transforms[1] = "keep" THEN self
  ELSE [self EXCEPT
          !.models[1] = set_transforms(@, play.transforms[2]).self]

\* ----------------------------------------------------------------- math
\* An f32 that is a whole number of sixteenths is kept as that number; a
\* weight is a number of quarters. The operators of f32 round what they
\* hand back.
f32_sub(a, b) == round_f32(a - b)
f32_add(a, b) == round_f32(a + b)
f32_mul(a, weight) == round_f32((a * weight) \div 4)

\* lerp with the two ends taken the other way round.
lerp_reversed(a, b, weight) == f32_add(f32_mul(f32_sub(a, b), weight), a)

\* lerp: (b - a) * weight + a
lerp(a, b, weight) == f32_add(f32_mul(f32_sub(b, a), weight), a)

\* ------------------------------------------------------------- inputs
\* How many next / next_range calls are followed from a cursor below the
\* bound (a cursor at the top of the u32 range is always followed through
\* its wrap-around).
MaxCalls == 3

\* How many successive next calls the sampling run makes.
MaxScan == 102

\* The indices on which two generators are compared.
MaxPair == 10040

Seeds == {U32_MIN, FromInt(42), U32_MAX}
Xs == {U32_MIN, FromInt(33), U32_MAX}
NearMax == wrapping_sub(U32_MAX, One)
IndexValues == {NearMax, U32_MAX}

\* The ranges of the cursor run, and the ranges of the range run.
FewRanges == {Range(FromInt(4), FromInt(8)), Range(FromInt(5), FromInt(5))}
\* The integers 2^31 - 128, 2^31 and 2^32 - 256, which an f32 holds exactly.
BelowHalfway == U(2 ^ 15 - 1, 2 ^ 16 - 128)
Halfway == U(2 ^ 15, 0)
Topmost == U(2 ^ 16 - 1, 2 ^ 16 - 256)

\* The positions sampled: cell corners, positions just left of or just above
\* a corner, in cells with negative, small and large coordinates.
Origin == Coord(Whole(FALSE, U32_MIN), "0")

Positions ==
  { <<Origin, Origin>>,
    <<Coord(Whole(TRUE, One), "1-eps"), Origin>>,
    <<Coord(Whole(FALSE, One), "0"), Coord(Whole(FALSE, One), "0")>>,
    <<Coord(Whole(FALSE, U32_MIN), "1-eps"), Coord(Whole(FALSE, One), "0")>>,
    <<Coord(Whole(TRUE, FromInt(3)), "eps"), Coord(Whole(TRUE, One), "1-eps")>>,
    <<Coord(Whole(FALSE, BelowHalfway), "0"), Origin>>,
    <<Coord(Whole(FALSE, Halfway), "0"), Origin>>,
    <<Origin, Coord(Whole(FALSE, Halfway), "0")>>,
    <<Coord(Whole(FALSE, Topmost), "0"), Coord(Whole(FALSE, One), "0")>> }

\* The clock values: multiples of 2^32 - 1 and the seconds past them.
Quotients == {U32_MIN, One, FromInt(2), U32_MAX}
Pasts == {U32_MIN, One, FromInt(42), wrapping_sub(U32_MAX, One)}
Clocks ==
  {Clock(q, r) : q \in Quotients, r \in Pasts} \cup {ClockMax, ClockEarly}

\* The transforms a model can have.
MaxTransforms == 2

Transforms == {Transform(0, 1), Transform(1, 2)}
Lists == UNION {[1 .. n -> Transforms] : n \in 0 .. MaxTransforms}
Mats == {IDENTITY, matrix(Transform(1, 2))}

\* The keys asked about and the scancodes of the key events, the mouse
\* buttons, and the cursor positions (whole pixels) of the cursor events.
Keys == {"Escape", "Char('w')"}
ScanCodes == {ScanCode(key) : key \in Keys}
Buttons == {"Left"}
ElementStates == {"Pressed", "Released"}
Cursor == {<<0, 0>>, <<1, 0>>, <<3, 2>>, <<2 ^ 24 + 1, 0>>}

\* The ends passed to lerp, in sixteenths and each a whole number of
\* quarters: 0, 1/4, 1/2, 3/4, 1, -1, 100 and 2^23; and the weights, in
\* quarters: 0, 1/4, 1/2 and 1.
Ends == {0, 4, 8, 12, 16, 0 - 16, 1600, 2 ^ 27}
Weights == {0, 1, 2, 4}

\* The exit codes passed to exit, what a game does about exit and about
\* its transforms (the lists it sets: of no, one and two transforms), and the time (in ticks of the clock) that passes between
\* two events or within the handling of one, up to the instant MaxInstant.
Codes == {None, Some(0), Some(1), Some(0 - 1)}
ExitCalls == {<<"no">>} \cup {<<"exit", code>> : code \in Codes}
GameLists ==
  {<<>>, <<Transform(0, 1)>>, <<Transform(1, 2)>>,
   <<Transform(1, 2), Transform(0, 1)>>}
Changes ==
  {<<"keep">>} \cup {<<"set", transforms>> : transforms \in GameLists}
ExitPlays == {Play(e, <<"keep">>) : e \in ExitCalls}
ModelPlays == {Play(<<"no">>, c) : c \in Changes}
MaxInstant == 4
Durations == {0, 1, 2}

\* Two seeds to tell apart.
PairSeeds == {U32_MIN, FromInt(42)}

RangeSeeds == {FromInt(42), U32_MAX}
RangeIndexes == {U32_MIN, U32_MAX}
Ranges ==
  { Range(FromInt(4), FromInt(8)),
    Range(FromInt(5), FromInt(5)),
    Range(FromInt(8), FromInt(4)),
    Range(U32_MIN, U32_MAX),
    Range(U(0, Half - 1), U(1, 1)),
    Range(NearMax, U32_MAX),
    RangeInclusive(FromInt(4), FromInt(7)),
    RangeInclusive(FromInt(5), FromInt(5)),
    RangeInclusive(FromInt(5), FromInt(4)),
    RangeInclusive(U32_MIN, U32_MAX),
    RangeInclusive(FromInt(5), U32_MAX),
    RangeInclusive(U32_MAX, U32_MAX),
    RangeFull,
    RangeFrom(FromInt(5)),
    RangeTo(FromInt(8)),
    RangeTo(U32_MIN),
    RangeToInclusive(FromInt(8)),
    RangeToInclusive(U32_MAX),
    Bounds(Excluded(FromInt(4)), Included(FromInt(8))),
    Bounds(Excluded(FromInt(4)), Excluded(FromInt(5))),
    Bounds(Excluded(U32_MAX), Unbounded) }

\* -------------------------------------------------------------- state
\* A key or button that is not held, and the Input before any Game::update.
Idle == [held |-> FALSE, updates |-> 0, repeated |-> FALSE]

Unseen ==
  [set |-> FALSE, later |-> FALSE,
   keys |-> [k \in Keys |-> [Pressed |-> FALSE, Down |-> FALSE]],
   buttons |-> [b \in Buttons |-> [Pressed |-> FALSE, Down |-> FALSE]],
   mouse_pos |-> <<0, 0>>, mouse_mov |-> <<0, 0>>, prev_pos |-> <<0, 0>>]

\* The world when the event loop starts, at the instant 0: no exit call,
\* no Game::update call, no model changed.
Unwatched ==
  [instant |-> 0, asked |-> <<"never">>, frames |-> 0, called_at |-> 0,
   since |-> 0, first_at |-> 0, total |-> 0, changed |-> {}, event |-> "run"]

\* No lerp call yet.
Unasked == [called |-> FALSE, a |-> 0, b |-> 0, weight |-> 0, val |-> 0]

VARIABLES
  noise,            \* the generator: [seed, index]
  overflow_checks,  \* the build profile: TRUE when `+` and `-` panic on overflow
  ret,              \* the most recent call and what it handed back
  obs,              \* the most recent get before that call: its seed, x, value
  calls,            \* next / next_range calls since from_seed; -1 once the
                    \* caller has assigned the index field
  scan,             \* the sampling run's tally of the values next returned
  twin,             \* a second generator and the run of indices it agreed on
  field,            \* the two most recent perlin_2d samples: last and prior
  now,              \* the wall clock: its seconds since the epoch (a u64),
                    \* and what they leave when divided by 2^32 - 1
  renderer,         \* the SimpleRenderer: its two uniform buffers, its models
  did,              \* the most recent call on the renderer or on a model,
                    \* the matrix it was passed (IDENTITY if none)
  input,            \* the Input: keys, buttons, mouse_pos, mouse_mov
  holds,            \* of every key and button: whether it is held (pressed
                    \* and not yet released), how many Game::update calls
                    \* the hold has seen (2: two or more), and whether a
                    \* press event has been repeated during it
  seen,             \* what the most recent Game::update found in the Input,
                    \* whether it was a later one than the first, and the
                    \* cursor position the one before it found
  run,              \* the GameData and the locals of GameExt::run
  world,            \* the monotonic clock (Instant::now), and the record of
                    \* the frames: the most recent exit call, the instants
                    \* of the Game::update calls and the delta_time values
                    \* they found, the models Game::update has changed
  lerped            \* the most recent lerp call and what it handed back

vars ==
  <<noise, overflow_checks, ret, obs, calls, scan, twin, field, now,
    renderer, did, input, holds, seen, run, world, lerped>>

\* What only the event loop touches.
played == <<input, holds, seen>>

framed == <<run, world>>

\* What the rand module does not touch.
drawn == <<renderer, did>>

\* What the calls on the generator leave alone.
apart == <<twin, field, now, drawn, played, run, world, lerped>>

\* What the calls on the renderer leave alone.
seeded ==
  <<noise, overflow_checks, ret, obs, calls, scan, twin, field, now, lerped>>

\* The record of a call: the operation, the cursor before it, the range
\* passed (RangeFull where the operation takes none) and its result.
Call(op, at, range, res) ==
  [op |-> op, at |-> at, x |-> res.x, range |-> range,
   outcome |-> res.outcome, val |-> res.val, wrapped |-> res.wrapped]

\* A call's effect: the generator it leaves and the record of the call.
Hand(op, range, res) ==
  /\ noise' = res.self
  /\ ret' = Call(op, noise.index, range, res)

\* A panic unwinds the thread that owns the generator: nothing follows it.
Running == ret.outcome # "panic"

\* The cursor is followed from here.
Followed == Lt(noise.index, FromInt(MaxCalls)) \/ Le(NearMax, noise.index)

\* obs after a call: the get that was the most recent call, if it was one.
Latch ==
  IF ret.op = "get"
  THEN [set |-> TRUE, seed |-> noise.seed, x |-> ret.x, val |-> ret.val]
  ELSE obs

Counted == IF calls < 0 THEN calls ELSE calls + 1

InitBoth(seed, other) ==
  /\ noise = from_seed(seed)
  /\ overflow_checks \in BOOLEAN
  /\ ret = [op |-> "from_seed", at |-> U32_MIN, x |-> seed,
            range |-> RangeFull, outcome |-> "ok", val |-> U32_MIN,
            wrapped |-> FALSE]
  /\ obs = [set |-> FALSE, seed |-> U32_MIN, x |-> U32_MIN, val |-> U32_MIN]
  /\ calls = 0
  /\ scan = [repeats |-> 0, returned |-> {}, dup |-> FALSE]
  /\ twin = [noise |-> from_seed(other), agree |-> 0]
  /\ field = [last |-> Unsampled, prior |-> Unsampled]
  /\ now = Clock(U32_MIN, U32_MIN)
  /\ renderer = SimpleRenderer_new(IDENTITY)
  /\ did = [op |-> "new", target |-> 0, matrix |-> IDENTITY,
            outcome |-> "ok"]
  /\ input = Input_new
  /\ holds = [keys |-> [c \in ScanCodes |-> Idle],
              buttons |-> [b \in Buttons |-> Idle]]
  /\ seen = Unseen
  /\ run = GameData_new(0)
  /\ world = Unwatched
  /\ lerped = Unasked

InitWith(seed) == InitBoth(seed, seed)

Init == \E seed \in Seeds : InitWith(seed)

\* let noise = Noise::from_seed(seed): a generator constructed anew.
Construct(seed) ==
  /\ Running
  /\ noise' = from_seed(seed)
  /\ ret' = Call("from_seed", noise.index, RangeFull,
                 Returned(noise', seed, U32_MIN, FALSE))
  /\ obs' = Latch
  /\ calls' = 0
  /\ UNCHANGED <<overflow_checks, scan>>
  /\ UNCHANGED apart

\* noise.index = v: the caller assigns the public cursor field.
AssignIndex(v) ==
  /\ Running
  /\ noise' = [noise EXCEPT !.index = v]
  /\ ret' = Call("index", noise.index, RangeFull,
                 Returned(noise', v, U32_MIN, FALSE))
  /\ obs' = Latch
  /\ calls' = -1
  /\ UNCHANGED <<overflow_checks, scan>>
  /\ UNCHANGED apart

\* noise.get(x)
CallGet(x) ==
  /\ Running
  /\ ret' = Call("get", noise.index, RangeFull,
                 Returned(noise, x, get(noise, x), FALSE))
  /\ obs' = Latch
  /\ UNCHANGED <<noise, overflow_checks, calls, scan>>
  /\ UNCHANGED apart

\* noise.next()
CallNext ==
  /\ Running
  /\ Followed
  /\ Hand("next", RangeFull, next(overflow_checks, noise))
  /\ obs' = Latch
  /\ calls' = Counted
  /\ UNCHANGED <<overflow_checks, scan>>
  /\ UNCHANGED apart

\* noise.get_range(index, range)
CallGetRange(index, range) ==
  /\ Running
  /\ Hand("get_range", range, get_range(overflow_checks, noise, index, range))
  /\ obs' = Latch
  /\ UNCHANGED <<overflow_checks, calls, scan>>
  /\ UNCHANGED apart

\* noise.next_range(range)
CallNextRange(range) ==
  /\ Running
  /\ Followed
  /\ Hand("next_range", range, next_range(overflow_checks, noise, range))
  /\ obs' = Latch
  /\ calls' = Counted
  /\ UNCHANGED <<overflow_checks, scan>>
  /\ UNCHANGED apart

\* The cursor run: every operation, on a few ranges.
Next ==
  \/ \E seed \in Seeds : Construct(seed)
  \/ \E v \in IndexValues : AssignIndex(v)
  \/ \E x \in Xs : CallGet(x)
  \/ CallNext
  \/ \E r \in FewRanges : CallGetRange(One, r)
  \/ \E r \in FewRanges : CallNextRange(r)

Spec == Init /\ [][Next]_vars

\* The range run: get_range and next_range on every kind of range, from a
\* constructed generator and from one whose cursor the caller has assigned.
NextRanges ==
  \/ AssignIndex(U32_MAX)
  \/ \E i \in RangeIndexes, r \in Ranges : CallGetRange(i, r)
  \/ \E r \in Ranges : CallNextRange(r)

InitRanges == \E seed \in RangeSeeds : InitWith(seed)

SpecRanges == InitRanges /\ [][NextRanges]_vars

\* The sampling run: successive next calls on a constructed generator, with
\* a tally of how often next returned the value it returned just before
\* and of whether it returned any value twice.
Sample ==
  /\ Running
  /\ calls < MaxScan
  /\ Hand("next", RangeFull, next(overflow_checks, noise))
  /\ scan' =
       [repeats |-> IF ret.op = "next" /\ ret'.val = ret.val
                    THEN scan.repeats + 1 ELSE scan.repeats,
        returned |-> scan.returned \cup {ret'.val},
        dup |-> scan.dup \/ ret'.val \in scan.returned]
  /\ obs' = Latch
  /\ calls' = Counted
  /\ UNCHANGED overflow_checks
  /\ UNCHANGED apart

NextScan == Sample

SpecScan == Init /\ [][NextScan]_vars

\* The paired run: two generators constructed from different seeds, the
\* first stepped with next and the second asked for the same index, with a
\* count of how many indices in a row they have returned the same value on.
Compare ==
  /\ Running
  /\ calls < MaxPair
  /\ Hand("next", RangeFull, next(overflow_checks, noise))
  /\ twin' = [twin EXCEPT !.agree =
               IF ret'.outcome = "ok" /\ get(twin.noise, ret'.x) = ret'.val
               THEN @ + 1 ELSE 0]
  /\ obs' = Latch
  /\ calls' = Counted
  /\ UNCHANGED <<overflow_checks, scan, field, now, drawn, played>>
  /\ UNCHANGED <<framed, lerped>>

NextPair == Compare

InitPair ==
  \E seed \in PairSeeds, other \in PairSeeds :
    Lt(seed, other) /\ InitBoth(seed, other)

SpecPair == InitPair /\ [][NextPair]_vars

\* perlin_2d(&noise, pos, interpolate)
CallPerlin2d(pos) ==
  /\ Running
  /\ field' = [last |-> perlin_2d(overflow_checks, noise, pos),
               prior |-> field.last]
  /\ ret' = Call("perlin_2d", noise.index, RangeFull,
                 [x |-> U32_MIN, outcome |-> field'.last.outcome,
                  val |-> U32_MIN, wrapped |-> field'.last.wrapped])
  /\ obs' = Latch
  /\ UNCHANGED <<noise, overflow_checks, calls, scan, twin, now, drawn>>
  /\ UNCHANGED <<played, framed, lerped>>

\* The perlin run: samples at the positions, one after another.
NextPerlin == \E pos \in Positions : CallPerlin2d(pos)

SpecPerlin == Init /\ [][NextPerlin]_vars

\* The wall clock is set, or has advanced, to another time.
SetClock(t) ==
  /\ now' = t
  /\ UNCHANGED <<noise, overflow_checks, ret, obs, calls, scan, twin, field>>
  /\ UNCHANGED <<drawn, played, framed, lerped>>

\* let noise = Noise::new()
CallNew ==
  /\ Running
  /\ Hand("new", RangeFull, new(noise, now))
  /\ obs' = Latch
  /\ calls' = 0
  /\ UNCHANGED <<overflow_checks, scan>>
  /\ UNCHANGED apart

\* The construction run: generators made from the clock and from seeds.
NextClock ==
  \/ \E t \in Clocks : SetClock(t)
  \/ CallNew
  \/ \E seed \in Seeds : Construct(seed)

SpecClock == Init /\ [][NextClock]_vars

\* A call on the renderer, op, on its model `target` (0: on the renderer
\* itself), handing back res for the renderer.
Working == Running /\ did.outcome # "panic"

Draws(op, target, res) ==
  /\ renderer' = res.self
  /\ did' = [op |-> op, target |-> target, matrix |-> IDENTITY,
             outcome |-> res.outcome]

Drew(op, target, res) ==
  /\ Draws(op, target, res)
  /\ UNCHANGED <<seeded, played, framed>>

\* The same for a call that is passed a matrix.
DrewWith(op, mat, res) ==
  /\ renderer' = res.self
  /\ did' = [op |-> op, target |-> 0, matrix |-> mat,
             outcome |-> res.outcome]
  /\ UNCHANGED <<seeded, played, framed>>

\* The same for a call on the model m, handing back res for the model.
OnModel(op, m, res) ==
  Drew(op, m, [res EXCEPT !.self = [renderer EXCEPT !.models[m] = res.self]])

Held == 1 .. Len(renderer.models)

\* renderer.models.push(Model::new(data, vertices, indices, transforms)),
\* for the one model the renderer of the run is given.
Pushed(res) ==
  [res EXCEPT !.self = [renderer EXCEPT !.models = Append(@, res.self)]]

PushModel(transforms) ==
  /\ Working
  /\ renderer.models = <<>>
  /\ Drew("Model::new", 1, Pushed(Model_new(alive(renderer), transforms)))

SetTransform(m, index, transform) ==
  /\ Working
  /\ OnModel("set_transform", m,
             set_transform(renderer.models[m], index, transform))

WithTransform(m, index, transform) ==
  /\ Working
  /\ OnModel("with_transform", m,
             with_transform(renderer.models[m], index, transform))

SetTransforms(m, transforms) ==
  /\ Working
  /\ OnModel("set_transforms", m,
             set_transforms(renderer.models[m], transforms))

WithTransforms(m, transforms) ==
  /\ Working
  /\ OnModel("with_transforms", m,
             with_transforms(renderer.models[m], transforms))

ModifyTransforms(m, modified) ==
  /\ Working
  /\ Len(modified) = Len(renderer.models[m].transforms)
  /\ OnModel("modify_transforms", m,
             modify_transforms(renderer.models[m], modified))

WithModifyTransforms(m, modified) ==
  /\ Working
  /\ Len(modified) = Len(renderer.models[m].transforms)
  /\ OnModel("with_modify_transforms", m,
             with_modify_transforms(renderer.models[m], modified))

\* model.update_transforms(data)
UpdateTransforms(m, fatal) ==
  /\ Working
  /\ OnModel("update_transforms", m,
             update_transforms(renderer.models[m], alive(renderer), fatal))

\* renderer.update(data)
RendererUpdate(fatal) ==
  /\ Working
  /\ Drew("update", 0, SimpleRenderer_update(renderer, fatal))

Render ==
  /\ Working
  /\ Drew("render", 0, render(renderer))

Resize ==
  /\ Working
  /\ Drew("resize", 0, resize(renderer))

SetCamera(camera, fatal) ==
  /\ Working
  /\ DrewWith("set_camera", camera, set_camera(renderer, camera, fatal))

SetProjection(projection, fatal) ==
  /\ Working
  /\ DrewWith("set_projection", projection,
              set_projection(renderer, projection, fatal))

\* The rendering run: a model is made, changed, brought up to date and
\* drawn.
NextRender ==
  \/ \E transforms \in Lists : PushModel(transforms)
  \/ \E m \in Held, i \in 0 .. MaxTransforms, t \in Transforms :
       SetTransform(m, i, t)
  \/ \E m \in Held, i \in 0 .. MaxTransforms, t \in Transforms :
       WithTransform(m, i, t)
  \/ \E m \in Held, transforms \in Lists : SetTransforms(m, transforms)
  \/ \E m \in Held, transforms \in Lists : WithTransforms(m, transforms)
  \/ \E m \in Held, modified \in Lists : ModifyTransforms(m, modified)
  \/ \E m \in Held, modified \in Lists : WithModifyTransforms(m, modified)
  \/ \E m \in Held, fatal \in BOOLEAN : UpdateTransforms(m, fatal)
  \/ \E fatal \in BOOLEAN : RendererUpdate(fatal)
  \/ Render
  \/ Resize
  \/ \E camera \in Mats, fatal \in BOOLEAN : SetCamera(camera, fatal)
  \/ \E projection \in Mats, fatal \in BOOLEAN :
       SetProjection(projection, fatal)

InitRender == InitWith(U32_MIN)

SpecRender == InitRender /\ [][NextRender]_vars

\* A press or release event reaches a hold: a press begins one unless the
\* key is held already (then it is the auto-repeat of the OS), a release
\* ends it.
Event(hold, state) ==
  IF state = "Released" THEN Idle
  ELSE IF hold.held THEN [hold EXCEPT !.repeated = TRUE]
  ELSE [held |-> TRUE, updates |-> 0, repeated |-> FALSE]

\* A Game::update call reaches a hold.
Frame(hold) ==
  IF hold.held THEN [hold EXCEPT !.updates = IF @ < 2 THEN @ + 1 ELSE @]
  ELSE hold

\* What Game::update finds in the Input, with the cursor position the
\* Game::update before it found.
Found(self, prev_pos) ==
  [set |-> TRUE, later |-> seen.set,
   keys |-> [k \in Keys |-> [Pressed |-> is_key(self, k, "Pressed"),
                             Down |-> is_key(self, k, "Down")]],
   buttons |-> [b \in Buttons |-> [Pressed |-> is_button(self, b, "Pressed"),
                                   Down |-> is_button(self, b, "Down")]],
   mouse_pos |-> self.mouse_pos, mouse_mov |-> self.mouse_mov,
   prev_pos |-> prev_pos]

\* The event loop runs until the control flow is an exit or a panic unwinds
\* it.
Looping == Working /\ run.control_flow = <<"Poll">>

\* The record of an event whose handling leaves the frames as they are.
Handled(event) == world' = [world EXCEPT !.event = event]

\* WindowEvent::KeyboardInput { input, .. }
KeyboardInput(scancode, state) ==
  /\ Looping
  /\ input' = handle_key(input, [scancode |-> scancode, state |-> state])
  /\ holds' = [holds EXCEPT !.keys[scancode] = Event(@, state)]
  /\ Handled("KeyboardInput")
  /\ UNCHANGED <<seen, seeded, drawn, run>>

\* WindowEvent::MouseInput { state, button, .. }
MouseInput(button, state) ==
  /\ Looping
  /\ input' = handle_button(input, button, state)
  /\ holds' = [holds EXCEPT !.buttons[button] = Event(@, state)]
  /\ Handled("MouseInput")
  /\ UNCHANGED <<seen, seeded, drawn, run>>

\* WindowEvent::CursorMoved { position, .. }
CursorMoved(position) ==
  /\ Looping
  /\ input' = handle_cursor(input, position)
  /\ Handled("CursorMoved")
  /\ UNCHANGED <<holds, seen, seeded, drawn, run>>

\* The record of the frames after a Game::update call made at the instant
\* world.instant, in a handling that ends `took` later and finds delta_time.
\* A model is changed while its latest change is one Game::update made.
Watched(play, took, delta_time) ==
  [instant |-> world.instant + took,
   asked |-> IF play.exit[1] = "no" THEN world.asked ELSE play.exit[2],
   frames |-> IF world.frames < 2 THEN world.frames + 1 ELSE world.frames,
   called_at |-> world.instant,
   since |-> IF world.frames = 0 THEN run.last_update ELSE world.called_at,
   first_at |-> IF world.frames = 0 THEN world.instant ELSE world.first_at,
   total |-> IF world.frames = 0 THEN 0 ELSE world.total + delta_time,
   changed |-> IF play.transforms[1] = "keep" THEN world.changed
               ELSE world.changed \cup {1},
   event |-> "MainEventsCleared"]

\* Event::MainEventsCleared: data.delta_time is set; game.update(&data),
\* which looks at the Input and does what `play` says;
\* game.get_renderer().update(&data); the exit code is looked at;
\* data.input.lock().update(); a redraw is requested and last_update set,
\* `took` after the handling began.
MainEventsCleared(play, took, fatal) ==
  /\ Looping
  /\ world.instant + took <= MaxInstant
  /\ play.transforms[1] = "keep" \/ Held # {}
  /\ seen' = Found(input, seen.mouse_pos)
  /\ Draws("update", 0,
           SimpleRenderer_update(game_models(renderer, play), fatal))
  /\ input' = IF did'.outcome = "panic" THEN input ELSE Input_update(input)
  /\ holds' = [keys |-> [c \in ScanCodes |-> Frame(holds.keys[c])],
               buttons |-> [b \in Buttons |-> Frame(holds.buttons[b])]]
  /\ run' = IF did'.outcome = "panic"
            THEN game_exit(timed(run, world.instant), play)
            ELSE redrawn(exit_checked(game_exit(timed(run, world.instant),
                                                play)),
                         world.instant + took)
  /\ world' = Watched(play, took, run'.delta_time)
  /\ UNCHANGED seeded

\* Event::RedrawRequested: data.graphics.lock().render(game.get_renderer())
RedrawRequested ==
  /\ Looping
  /\ Draws("render", 0, render(renderer))
  /\ run' = [run EXCEPT !.redraw_requested = FALSE]
  /\ Handled("RedrawRequested")
  /\ UNCHANGED <<seeded, played>>

\* WindowEvent::CloseRequested
CloseRequested ==
  /\ Looping
  /\ run' = [run EXCEPT !.control_flow = <<"ExitWithCode", 0>>]
  /\ Handled("CloseRequested")
  /\ UNCHANGED <<seeded, played, drawn>>

\* An event the engine does nothing about (the arm `_ => {}`), in whose
\* game.handle_event(&data, event) the game does what `play` says.
OtherEvent(play) ==
  /\ Looping
  /\ play.transforms[1] = "keep" \/ Held # {}
  /\ Draws("handle_event", 0, Done(game_models(renderer, play)))
  /\ run' = game_exit(run, play)
  /\ world' = [world EXCEPT
                 !.asked = IF play.exit[1] = "no" THEN @ ELSE play.exit[2],
                 !.changed = IF play.transforms[1] = "keep" THEN @
                             ELSE @ \ {1},
                 !.event = "Other"]
  /\ UNCHANGED <<seeded, played>>

\* Time passes between two events.
Elapse(d) ==
  /\ Looping
  /\ d > 0
  /\ world.instant + d <= MaxInstant
  /\ world' = [world EXCEPT !.instant = @ + d, !.event = "none"]
  /\ UNCHANGED <<seeded, played, drawn, run>>

\* The event loop with key and button events between the frames.
NextKeys ==
  \/ \E c \in ScanCodes, state \in ElementStates : KeyboardInput(c, state)
  \/ \E b \in Buttons, state \in ElementStates : MouseInput(b, state)
  \/ \E fatal \in BOOLEAN : MainEventsCleared(Still, 0, fatal)

SpecKeys == InitRender /\ [][NextKeys]_vars

\* The event loop with cursor events between the frames.
NextCursor ==
  \/ \E position \in Cursor : CursorMoved(position)
  \/ \E fatal \in BOOLEAN : MainEventsCleared(Still, 0, fatal)

SpecCursor == InitRender /\ [][NextCursor]_vars

\* The event loop of a game that calls exit, with the clock running.
NextLoop ==
  \/ \E d \in Durations : Elapse(d)
  \/ \E play \in ExitPlays, took \in Durations, fatal \in BOOLEAN :
       MainEventsCleared(play, took, fatal)
  \/ \E play \in ExitPlays \ {Still} : OtherEvent(play)
  \/ CloseRequested

SpecLoop == InitRender /\ [][NextLoop]_vars

\* The event loop of a game that has a model and changes its transforms,
\* with cursor events and redraws between the frames.
NextFrames ==
  \/ \E transforms \in GameLists : PushModel(transforms)
  \/ \E play \in ModelPlays, fatal \in BOOLEAN :
       MainEventsCleared(play, 0, fatal)
  \/ \E play \in ModelPlays \ {Still} : OtherEvent(play)
  \/ \E position \in {<<0, 0>>, <<3, 2>>} : CursorMoved(position)
  \/ RedrawRequested

SpecFrames == InitRender /\ [][NextFrames]_vars

\* lerp(a, b, weight)
CallLerp(a, b, weight) ==
  /\ lerped' = [called |-> TRUE, a |-> a, b |-> b, weight |-> weight,
                val |-> lerp(a, b, weight)]
  /\ UNCHANGED <<noise, overflow_checks, ret, obs, calls, scan, twin, field,
                 now, drawn, played, framed>>

\* The interpolation run: lerp is called on ends and weights.
NextLerp == \E a \in Ends, b \in Ends, weight \in Weights : CallLerp(a, b, weight)

SpecLerp == InitRender /\ [][NextLerp]_vars

\* ------------------------------------------------------------ claims
\* The ranges of the claims: what a range denotes, and the half-open a..b.
Contains(range, v) ==
  /\ CASE range.start[1] = "Included" -> Le(range.start[2], v)
       [] range.start[1] = "Excluded" -> Lt(range.start[2], v)
       [] range.start[1] = "Unbounded" -> TRUE
  /\ CASE range.end[1] = "Included" -> Le(v, range.end[2])
       [] range.end[1] = "Excluded" -> Lt(v, range.end[2])
       [] range.end[1] = "Unbounded" -> TRUE

\* A range that denotes any value denotes its lower bound, the value after
\* it, or 0.
NonEmpty(range) ==
  \E v \in {range.start[2], wrapping_add(range.start[2], One), U32_MIN} :
    Contains(range, v)

HalfOpen(range) ==
  /\ range.start[1] = "Included"
  /\ range.end[1] = "Excluded"
  /\ Lt(range.start[2], range.end[2])

\* The last call was get_range, or next_range from a cursor below u32::MAX.
RangeCall ==
  \/ ret.op = "get_range"
  \/ ret.op = "next_range" /\ ret.at # U32_MAX

\* C1: get(x) depends on the seed and on x alone: a get returns what the
\* most recent earlier get of the same x under the same seed returned,
\* whatever generator made that call and whatever was called or assigned in
\* between.
C1_GetIsFunctionOfSeedAndX ==
  (ret.op = "get" /\ obs.set /\ obs.seed = noise.seed /\ obs.x = ret.x)
    => ret.val = obs.val

\* C1 witness: a get from a cursor at u32::MAX repeats the x of an earlier
\* get under the same seed.
C1_Witness ==
  /\ ret.op = "get" /\ obs.set /\ obs.seed = noise.seed /\ obs.x = ret.x
  /\ ret.at = U32_MAX
  /\ ret.x = FromInt(33)

\* C2: get_range and next_range on a half-open range low..high with
\* low < high return a value v with low <= v < high, and no step of the
\* computation overflows.
C2_RangeContainment ==
  (RangeCall /\ HalfOpen(ret.range))
    => /\ ret.outcome = "ok"
       /\ ~ret.wrapped
       /\ Le(ret.range.start[2], ret.val)
       /\ Lt(ret.val, ret.range.end[2])

\* C2 witness: next_range(u32::MAX - 1 .. u32::MAX) has returned.
C2_Witness ==
  /\ ret.op = "next_range"
  /\ ret.range = Range(NearMax, U32_MAX)
  /\ ret.outcome = "ok"
  /\ ret.val = NearMax

\* C3: a call with a range that denotes no value hands back the
\* InvalidRange error: it neither panics nor returns a number.
C3_EmptyRangeIsAnError ==
  (RangeCall /\ ~NonEmpty(ret.range)) => ret.outcome = "InvalidRange"

\* C4: for every range that denotes a value, of whatever bound kinds, the
\* call returns without overflow and the value is one the range denotes.
C4_EveryBoundKind ==
  (RangeCall /\ NonEmpty(ret.range))
    => /\ ret.outcome = "ok"
       /\ ~ret.wrapped
       /\ Contains(ret.range, ret.val)

\* C5: get returns, and what it returns is a u32, for every seed and x.
C5_GetReturnsU32 ==
  ret.op = "get" => (ret.outcome = "ok" /\ IsU32(ret.val))

\* C5 witness: get(u32::MAX) under the seed u32::MAX has returned.
C5_Witness ==
  /\ ret.op = "get"
  /\ noise.seed = U32_MAX
  /\ ret.x = U32_MAX
  /\ ret.outcome = "ok"

\* C6: next, and next_range on a half-open range, called with the cursor at
\* u32::MAX return; the cursor is then 0 and the value is that of index 0.
C6_CursorWrapsAtMax ==
  /\ (ret.op = "next" /\ ret.at = U32_MAX)
       => /\ ret.outcome = "ok"
          /\ noise.index = U32_MIN
          /\ ret.val = get(noise, U32_MIN)
  /\ (ret.op = "next_range" /\ ret.at = U32_MAX /\ HalfOpen(ret.range))
       => /\ ret.outcome = "ok"
          /\ noise.index = U32_MIN
          /\ ret.val = get_range(overflow_checks, noise, U32_MIN, ret.range).val

\* C7: a next or next_range call from a cursor below u32::MAX leaves the
\* cursor one higher and hands back get, or get_range, at the new cursor;
\* on a generator whose cursor only these calls have moved since from_seed,
\* the k-th call is at index k, and so never at index 0.
C7_CursorCountsCalls ==
  (ret.op \in {"next", "next_range"} /\ ret.at # U32_MAX)
    => /\ noise.index = wrapping_add(ret.at, One)
       /\ Lt(ret.at, noise.index)
       /\ ret.x = noise.index
       /\ ret.op = "next"
            => (ret.outcome = "ok" /\ ret.val = get(noise, noise.index))
       /\ ret.op = "next_range"
            => (/\ ret.outcome = get_range(overflow_checks, noise,
                                           noise.index, ret.range).outcome
                /\ ret.val = get_range(overflow_checks, noise,
                                       noise.index, ret.range).val)
       /\ calls >= 0 => (calls >= 1 /\ noise.index = FromInt(calls))

\* C7 witness: the third call since from_seed, a next_range, has returned.
C7_Witness ==
  /\ ret.op = "next_range"
  /\ ret.outcome = "ok"
  /\ calls = 3
  /\ noise.index = FromInt(3)

\* C8: no get, get_range, next or next_range call changes the seed; get and
\* get_range change neither field.
C8_Frame ==
  [][/\ ret'.op \in {"get", "get_range", "next", "next_range"}
          => noise'.seed = noise.seed
     /\ ret'.op \in {"get", "get_range"} => noise' = noise]_vars

\* C8 witness: a get_range has returned on a generator advanced once.
C8_Witness ==
  /\ ret.op = "get_range"
  /\ ret.outcome = "ok"
  /\ calls = 1
  /\ noise.index = One

\* C9: within 10,000 successive indices fewer than 1% give the value of the
\* index before.
C9_Sensitivity == calls <= 10000 => scan.repeats * 100 < 10000

\* C10: the first 2^16 next calls return pairwise distinct values.
C10_NoValueTwice == calls <= 2 ^ 16 => ~scan.dup

\* C11: the output uses the full 32-bit range: among the values the first
\* 100 next calls return, every residue modulo 16 occurs (no one of the four
\* low bits is the same in all of them).
C11_EveryResidueOccurs ==
  calls >= 100 =>
    \A r \in 0 .. 15 : \E v \in scan.returned : v[2] % 16 = r

\* C12: two generators with different seeds are told apart within any
\* 10,000 consecutive indices: they never agree on 10,000 indices in a row.
C12_SeedsToldApart == twin.noise.seed # noise.seed => twin.agree < 10000

\* C13: perlin_2d returns at every position, the floored coordinates
\* negative or from 2^31 on included, and no step of deriving the corners'
\* gradient indices overflows.
C13_PerlinNeverFails ==
  field.last.set => (field.last.outcome = "ok" /\ ~field.last.wrapped)

\* A sample at a cell corner, and a sample just left of the corner of the
\* last sample, in the cell that shares it.
AtCorner(sample) ==
  sample.set /\ sample.pos[1].frac = "0" /\ sample.pos[2].frac = "0"

LeftOf(near, sample) ==
  /\ near.set
  /\ near.pos[2] = sample.pos[2]
  /\ near.pos[1].frac = "1-eps"
  /\ add_one(near.pos[1].floor) = sample.pos[1].floor

\* C14: perlin_2d is continuous across cell boundaries: a sample at a cell
\* corner has a value, and a sample just across the boundary has a value
\* built from the same gradients for the corners the two cells share, so
\* that with f(a, b, 0) = a and f(a, b, 1) = b the two values differ by at
\* most a multiple of the distance.
C14_ContinuousAcrossCells ==
  AtCorner(field.last) =>
    /\ field.last.outcome = "ok"
    /\ LeftOf(field.prior, field.last) =>
         /\ field.prior.outcome = "ok"
         /\ field.prior.gradient_top_right = field.last.gradient_top_left
         /\ field.prior.gradient_bottom_right =
              field.last.gradient_bottom_left

\* C15: with the clock at or after the epoch, Noise::new returns a generator
\* whose cursor is 0 and whose seed is the seconds since the epoch modulo
\* 2^32 - 1, a value below 2^32 - 1 that the cast to u32 does not truncate;
\* from_seed(s) returns a generator with seed s and cursor 0.
C15_Constructors ==
  /\ [][(ret'.op = "new" /\ now' = now /\ ~now.early)
          => /\ ret'.outcome = "ok"
             /\ noise'.index = U32_MIN
             /\ noise'.seed = now.past
             /\ Lt(noise'.seed, U32_MAX)
             /\ ~ret'.wrapped]_vars
  /\ [](ret.op = "from_seed"
          => /\ ret.outcome = "ok"
             /\ noise.seed = ret.x
             /\ noise.index = U32_MIN)

\* C15 witness: Noise::new with the clock at 2 * (2^32 - 1) + 42 seconds
\* has returned the seed 42.
C15_Witness ==
  /\ ret.op = "new"
  /\ now = Clock(FromInt(2), FromInt(42))
  /\ now.secs = <<FromInt(2), FromInt(40)>>
  /\ noise.seed = FromInt(42)

\* The six transform mutators of Model, and whether model m of a renderer
\* is marked outdated.
Mutators ==
  {"set_transform", "with_transform", "set_transforms", "with_transforms",
   "modify_transforms", "with_modify_transforms"}

Outdated(self, m) == self.models[m].transforms_outdated

Synchronised(before, after) ==
  /\ after.transform_buffer.id # before.transform_buffer.id
       <=> Len(before.transforms) # before.transform_count
  /\ after.transform_buffer.id = before.transform_buffer.id
       => after.transform_buffer.size = before.transform_buffer.size
  /\ after.transforms = before.transforms
  /\ after.transform_count = Len(after.transforms)
  /\ after.transform_buffer.contents = matrices(after.transforms)
  /\ after.transform_buffer.size = Len(after.transforms) * MatrixBytes
  /\ ~after.transforms_outdated

\* C17: update_transforms, called directly or by the renderer's update on
\* an outdated model, returns; it has made a new transform buffer if and
\* only if the number of transforms differed from transform_count, and has
\* otherwise written the buffer it had from its start; afterwards
\* transform_count is the number of transforms, the buffer holds their
\* matrices in order and nothing else, and transforms_outdated is false.
C17_BufferSynchronised ==
  [][/\ did'.op = "update_transforms"
          => /\ did'.outcome = "ok"
             /\ Synchronised(renderer.models[did'.target],
                             renderer'.models[did'.target])
     /\ did'.op = "update"
          => /\ did'.outcome = "ok"
             /\ \A m \in Held :
                  IF Outdated(renderer, m)
                  THEN Synchronised(renderer.models[m], renderer'.models[m])
                  ELSE renderer'.models[m] = renderer.models[m]]_vars

\* C17 witness: update_transforms has replaced the buffer of a model that
\* was created with one transform by a buffer of two different matrices.
C17_Witness ==
  /\ did.op = "update_transforms"
  /\ renderer.models[1].transform_buffer.id = 4
  /\ renderer.models[1].transform_count = 2
  /\ renderer.models[1].transform_buffer.contents =
       <<matrix(Transform(1, 2)), matrix(Transform(0, 1))>>

\* C18: set_camera(c) and set_projection(p) return, having written within
\* the one-matrix uniform buffer made by SimpleRenderer::new: the camera
\* buffer then holds c, the projection buffer p, and each is still one
\* matrix long.
C18_UniformWrites ==
  /\ did.op = "set_camera"
       => /\ did.outcome = "ok"
          /\ renderer.camera_buffer.size = MatrixBytes
          /\ renderer.camera_buffer.contents = <<did.matrix>>
  /\ did.op = "set_projection"
       => /\ did.outcome = "ok"
          /\ renderer.projection_buffer.size = MatrixBytes
          /\ renderer.projection_buffer.contents = <<did.matrix>>

\* What the most recent Game::update found for a key or button, against
\* its hold: when that update was the first of the hold it is Pressed and
\* Down, when it was a later one it is Down and not Pressed.
FirstFrameOnly(hold, found) ==
  /\ (hold.held /\ hold.updates = 1) => (found.Pressed /\ found.Down)
  /\ (hold.held /\ hold.updates = 2) => (~found.Pressed /\ found.Down)

\* C19: during a hold of a key or mouse button, from its press event to
\* its release event, is_key(k, Pressed) is true at the first Game::update
\* and false at every later one, and is_key(k, Down) is true at every one,
\* whatever press events are repeated during the hold.
C19_PressedOnce ==
  seen.set =>
    /\ \A k \in Keys : FirstFrameOnly(holds.keys[ScanCode(k)], seen.keys[k])
    /\ \A b \in Buttons : FirstFrameOnly(holds.buttons[b], seen.buttons[b])

\* C19 witness: the key w is held, its press event has been repeated, and
\* the second Game::update of the hold has found it Down and not Pressed.
C19_Witness ==
  /\ seen.set
  /\ holds.keys[17] = [held |-> TRUE, updates |-> 2, repeated |-> TRUE]
  /\ seen.keys["Char('w')"].Down
  /\ ~seen.keys["Char('w')"].Pressed
  /\ input.keys[17] = "Down"

\* C20: at every Game::update after the first, mouse_mov is the cursor
\* position at this update minus the cursor position at the update before:
\* the whole displacement of the cursor events in between, [0, 0] if there
\* were none.
C20_MotionThisUpdate ==
  seen.later =>
    seen.mouse_mov = <<seen.mouse_pos[1] - seen.prev_pos[1],
                       seen.mouse_pos[2] - seen.prev_pos[2]>>

\* The instances render draws from a model, 0 .. transform_count, and
\* whether the instance i lies within the model's transform buffer.
Instances(model) == 0 .. model.transform_count - 1

WithinBuffer(model, i) == (i + 1) * MatrixBytes <= model.transform_buffer.size

\* C25: in every state reached through Model::new, the six mutators and
\* update_transforms, transform_count is the number of matrices the
\* transform buffer was created with, so no instance that render draws
\* lies beyond the end of the buffer, also while the transforms are
\* outdated and of another length.
C25_CountMatchesBuffer ==
  \A m \in Held :
    /\ renderer.models[m].transform_count
         = Len(renderer.models[m].transform_buffer.contents)
    /\ renderer.models[m].transform_buffer.size
         = renderer.models[m].transform_count * MatrixBytes
    /\ \A i \in Instances(renderer.models[m]) :
         WithinBuffer(renderer.models[m], i)

\* C25 witness: render has been called on a model whose transforms have
\* been set to a longer list that update_transforms has not yet seen.
C25_Witness ==
  /\ did.op = "render"
  /\ did.outcome = "ok"
  /\ Held # {}
  /\ renderer.models[1].transforms_outdated
  /\ Len(renderer.models[1].transforms) > renderer.models[1].transform_count
  /\ renderer.models[1].transform_count > 0

\* The arithmetic of a lerp call is exact: the difference, the product and
\* the sum are f32 values as they stand, so that none of them is rounded.
ExactLerp(a, b, weight) ==
  /\ f32_sub(b, a) = b - a
  /\ ((b - a) * weight) % 4 = 0
  /\ f32_mul(b - a, weight) = ((b - a) * weight) \div 4
  /\ f32_add(((b - a) * weight) \div 4, a) = ((b - a) * weight) \div 4 + a

\* C24: where the arithmetic is exact, lerp(a, b, w) is a + (b - a) * w:
\* a at w = 0, b at w = 1 and the midpoint of a and b at w = 1/2.
C24_LerpInterpolates ==
  (lerped.called /\ ExactLerp(lerped.a, lerped.b, lerped.weight)) =>
    /\ lerped.val * 4 = lerped.a * 4 + (lerped.b - lerped.a) * lerped.weight
    /\ lerped.weight = 0 => lerped.val = lerped.a
    /\ lerped.weight = 4 => lerped.val = lerped.b
    /\ lerped.weight = 2 => lerped.val * 2 = lerped.a + lerped.b

\* C24 witness: lerp(0.5, 1.0, 0.5) has handed back 0.75.
C24_Witness ==
  /\ lerped.called
  /\ ExactLerp(lerped.a, lerped.b, lerped.weight)
  /\ lerped.a = 8 /\ lerped.b = 16 /\ lerped.weight = 2
  /\ lerped.val = 12

\* The step is the handling of a MainEventsCleared event.
FrameStep == world'.event = "MainEventsCleared" /\ did'.op = "update"

\* The exit code that an exit call asks for.
AskedCode(code) == IF code[1] = "Some" THEN code[2] ELSE 0

\* C21: once exit(code) has been called, in Game::update of this frame or
\* before, the handling of MainEventsCleared sets the control flow to
\* ExitWithCode(c), c the code of the most recent exit call (0 for None);
\* with no exit call it leaves the control flow; and exit_code, once Some,
\* stays Some.
C21_ExitOnNextUpdate ==
  /\ [][FrameStep =>
          IF world'.asked = <<"never">>
          THEN run'.control_flow = run.control_flow
          ELSE /\ run'.control_flow
                   = <<"ExitWithCode", AskedCode(world'.asked)>>
               /\ run'.exit_code = <<"Some", AskedCode(world'.asked)>>]_vars
  /\ [][run.exit_code[1] = "Some" => run'.exit_code[1] = "Some"]_vars

\* C21 witness: exit(None) has been called and the handling of
\* MainEventsCleared has set the control flow to ExitWithCode(0).
C21_Witness ==
  /\ world.event = "MainEventsCleared"
  /\ world.asked = None
  /\ run.control_flow = <<"ExitWithCode", 0>>

\* C22: at every Game::update call delta_time is the time since the
\* Game::update call before it was made (since the loop started, at the
\* first call), so that the delta_time values after the first add up to the
\* time between the first call and the latest.
C22_DeltaSinceLastUpdate ==
  world.frames > 0 =>
    /\ run.delta_time = world.called_at - world.since
    /\ world.total = world.called_at - world.first_at

\* The model m is synchronised: not outdated, its buffer holding the
\* matrices of its transforms.
InStep(self, m) ==
  /\ ~self.models[m].transforms_outdated
  /\ self.models[m].transform_buffer.contents
       = matrices(self.models[m].transforms)

\* C23: in the handling of MainEventsCleared Renderer::update comes after
\* Game::update, Input::update after both, and a redraw is requested, so
\* that at every render each model that Game::update has changed through a
\* mutator is synchronised.
C23_UpdateBeforeRender ==
  /\ [][(FrameStep /\ did'.outcome = "ok") =>
          /\ \A m \in world'.changed : InStep(renderer', m)
          /\ seen'.mouse_mov = input.mouse_mov
          /\ input'.mouse_mov = <<0, 0>>
          /\ run'.redraw_requested]_vars
  /\ [](did.op = "render" => \A m \in world.changed : InStep(renderer, m))

\* C23 witness: a render follows a frame in whose Game::update the model
\* was given two transforms in place of a list of another length.
C23_Witness ==
  /\ did.op = "render"
  /\ world.event = "RedrawRequested"
  /\ world.changed = {1}
  /\ world.frames > 0
  /\ Len(renderer.models[1].transforms) = 2
  /\ renderer.models[1].transform_buffer.id # 3
====
